---- MODULE Spec2Model ----
(***************************************************************************)
(* A model of the checkWorkflowFailures GitHub action (src/src/index.ts).  *)
(*                                                                         *)
(* One invocation of checkWorkflowStatus(): the configuration strings are  *)
(* read and parsed, listWorkflowRuns is awaited, and the continuation      *)
(* filters the fetched runs by age and publishes has_previous_failure, or  *)
(* the catch block signals a process-level failure.  A process is either   *)
(* the action itself (index.ts is the entry point and main() makes the one *)
(* call) or a local test script, which imports index.ts and then calls     *)
(* checkWorkflowStatus() itself.                                           *)
(*                                                                         *)
(* Strings that the code parses are sequences of one-character strings, so *)
(* that toLowerCase, trim and parseFloat are computed, not assumed.        *)
(* A timestamp is <<day, ms>> (days since the epoch, milliseconds within   *)
(* the day); a missing run_started_at is the empty tuple.                  *)
(***************************************************************************)
EXTENDS Integers, Sequences, FiniteSets, TLC

VARIABLES
    env,                  \* the action's inputs as the host passes them (strings)
    entry,                \* "action" | "script": the module the process runs
    scriptCall,           \* the call made by testLocally(): "none" | "start" |
                          \* "awaiting" | "done"
    pc,                   \* "start" | "awaiting" | "done"
    input,                \* <<ParsedInput>>, once getParsedInput() has returned
    fetchCalls,           \* number of listWorkflowRuns calls issued
    requests,             \* the parameters of these calls, in order
    evaluations,          \* number of times a fetched list was evaluated
    response,             \* <<response.data.workflow_runs>>, once the fetch resolved
    skew,                 \* milliseconds by which the clock of the runner is
                          \* behind the clock that stamped the runs
    clock,                \* clock[i]: Date.now() while the filter examines run i
    lookback,             \* <<timeToLookBackMs>>, once computed (as a threshold)
    recent,               \* <<recentWorkflowRuns>>, once the filter has run
    firstReads,           \* number of positional reads workflowRuns[0]
    outputs,              \* the setOutput calls, in order: <<name, value>>
    failures              \* the setFailed calls, in order: message

vars == <<env, entry, scriptCall, pc, input, fetchCalls, requests, evaluations,
          response, skew, clock, lookback, recent, firstReads, outputs, failures>>

-----------------------------------------------------------------------------
(* Bounds of the model *)

MaxRuns == 2
MaxTicks == 1

-----------------------------------------------------------------------------
(* Characters and strings *)

\* A string is the sequence of its UTF-16 code units, each a number in
\* 0..65535, as String.prototype.toLowerCase and trim and the global
\* parseInt and parseFloat see it.

\* the printable characters of ASCII in code order: U+0020 to U+005F, and
\* U+0061 to U+007E (U+0060 cannot be written in a string of TLA+)
Ascii == <<" ","!","\"","#","$","%","&","'","(",")","*","+",",","-",".","/",
          "0","1","2","3","4","5","6","7","8","9",":",";","<","=",">","?",
          "@","A","B","C","D","E","F","G","H","I","J","K","L","M","N","O",
          "P","Q","R","S","T","U","V","W","X","Y","Z","[","\\","]","^","_">>
AsciiHigh == <<"a","b","c","d","e","f","g","h","i","j","k","l","m","n","o","p",
               "q","r","s","t","u","v","w","x","y","z","{","|","}","~">>

\* the code unit of a character of ASCII
CodeUnit(c) ==
    CASE c = "\t" -> 9
      [] c = "\n" -> 10
      [] c = "\f" -> 12
      [] c = "\r" -> 13
      [] \E i \in 1..64 : Ascii[i] = c -> 31 + CHOOSE i \in 1..64 : Ascii[i] = c
      [] OTHER -> 96 + CHOOSE i \in 1..30 : AsciiHigh[i] = c

\* the string written as the sequence of its characters, all of ASCII
CodeUnits(t) == [i \in 1..Len(t) |-> CodeUnit(t[i])]

\* WhiteSpace and LineTerminator of ECMAScript, the code points that
\* String.prototype.trim removes and parseFloat and parseInt skip: TAB, LF,
\* VT, FF, CR, SP, NBSP, U+1680, U+2000..U+200A, U+2028, U+2029, U+202F,
\* U+205F, U+3000 and U+FEFF
WhiteSpace ==
    {9, 10, 11, 12, 13, 32, 160, 5760, 8232, 8233, 8239, 8287, 12288, 65279}
        \cup (8192..8202)

RECURSIVE Pow10(_)
Pow10(n) == IF n <= 0 THEN 1 ELSE 10 * Pow10(n - 1)

\* The lower-case mappings of the Unicode Character Database that map a
\* code point to one other code point, as runs <<first, last, step,
\* offset>>: every step-th code point from first to last maps to itself
\* plus offset. The tables are those of Unicode 17.0.0, the version of the
\* node20 runtime the action runs on (.projenrc.ts:164).
LowerRuns == <<
    <<65,90,1,32>>, <<192,214,1,32>>, <<216,222,1,32>>, <<256,302,2,1>>,
    <<306,310,2,1>>, <<313,327,2,1>>, <<330,374,2,1>>, <<376,376,1,-121>>,
    <<377,381,2,1>>, <<385,385,1,210>>, <<386,388,2,1>>, <<390,390,1,206>>,
    <<391,391,1,1>>, <<393,394,1,205>>, <<395,395,1,1>>, <<398,398,1,79>>,
    <<399,399,1,202>>, <<400,400,1,203>>, <<401,401,1,1>>, <<403,403,1,205>>,
    <<404,404,1,207>>, <<406,406,1,211>>, <<407,407,1,209>>, <<408,408,1,1>>,
    <<412,412,1,211>>, <<413,413,1,213>>, <<415,415,1,214>>, <<416,420,2,1>>,
    <<422,422,1,218>>, <<423,423,1,1>>, <<425,425,1,218>>, <<428,428,1,1>>,
    <<430,430,1,218>>, <<431,431,1,1>>, <<433,434,1,217>>, <<435,437,2,1>>,
    <<439,439,1,219>>, <<440,440,1,1>>, <<444,444,1,1>>, <<452,452,1,2>>,
    <<453,453,1,1>>, <<455,455,1,2>>, <<456,456,1,1>>, <<458,458,1,2>>,
    <<459,475,2,1>>, <<478,494,2,1>>, <<497,497,1,2>>, <<498,500,2,1>>,
    <<502,502,1,-97>>, <<503,503,1,-56>>, <<504,542,2,1>>, <<544,544,1,-130>>,
    <<546,562,2,1>>, <<570,570,1,10795>>, <<571,571,1,1>>, <<573,573,1,-163>>,
    <<574,574,1,10792>>, <<577,577,1,1>>, <<579,579,1,-195>>,
    <<580,580,1,69>>, <<581,581,1,71>>, <<582,590,2,1>>, <<880,882,2,1>>,
    <<886,886,1,1>>, <<895,895,1,116>>, <<902,902,1,38>>, <<904,906,1,37>>,
    <<908,908,1,64>>, <<910,911,1,63>>, <<913,929,1,32>>, <<931,939,1,32>>,
    <<975,975,1,8>>, <<984,1006,2,1>>, <<1012,1012,1,-60>>, <<1015,1015,1,1>>,
    <<1017,1017,1,-7>>, <<1018,1018,1,1>>, <<1021,1023,1,-130>>,
    <<1024,1039,1,80>>, <<1040,1071,1,32>>, <<1120,1152,2,1>>,
    <<1162,1214,2,1>>, <<1216,1216,1,15>>, <<1217,1229,2,1>>,
    <<1232,1326,2,1>>, <<1329,1366,1,48>>, <<4256,4293,1,7264>>,
    <<4295,4295,1,7264>>, <<4301,4301,1,7264>>, <<5024,5103,1,38864>>,
    <<5104,5109,1,8>>, <<7305,7305,1,1>>, <<7312,7354,1,-3008>>,
    <<7357,7359,1,-3008>>, <<7680,7828,2,1>>, <<7838,7838,1,-7615>>,
    <<7840,7934,2,1>>, <<7944,7951,1,-8>>, <<7960,7965,1,-8>>,
    <<7976,7983,1,-8>>, <<7992,7999,1,-8>>, <<8008,8013,1,-8>>,
    <<8025,8031,2,-8>>, <<8040,8047,1,-8>>, <<8072,8079,1,-8>>,
    <<8088,8095,1,-8>>, <<8104,8111,1,-8>>, <<8120,8121,1,-8>>,
    <<8122,8123,1,-74>>, <<8124,8124,1,-9>>, <<8136,8139,1,-86>>,
    <<8140,8140,1,-9>>, <<8152,8153,1,-8>>, <<8154,8155,1,-100>>,
    <<8168,8169,1,-8>>, <<8170,8171,1,-112>>, <<8172,8172,1,-7>>,
    <<8184,8185,1,-128>>, <<8186,8187,1,-126>>, <<8188,8188,1,-9>>,
    <<8486,8486,1,-7517>>, <<8490,8490,1,-8383>>, <<8491,8491,1,-8262>>,
    <<8498,8498,1,28>>, <<8544,8559,1,16>>, <<8579,8579,1,1>>,
    <<9398,9423,1,26>>, <<11264,11311,1,48>>, <<11360,11360,1,1>>,
    <<11362,11362,1,-10743>>, <<11363,11363,1,-3814>>,
    <<11364,11364,1,-10727>>, <<11367,11371,2,1>>, <<11373,11373,1,-10780>>,
    <<11374,11374,1,-10749>>, <<11375,11375,1,-10783>>,
    <<11376,11376,1,-10782>>, <<11378,11378,1,1>>, <<11381,11381,1,1>>,
    <<11390,11391,1,-10815>>, <<11392,11490,2,1>>, <<11499,11501,2,1>>,
    <<11506,11506,1,1>>, <<42560,42604,2,1>>, <<42624,42650,2,1>>,
    <<42786,42798,2,1>>, <<42802,42862,2,1>>, <<42873,42875,2,1>>,
    <<42877,42877,1,-35332>>, <<42878,42886,2,1>>, <<42891,42891,1,1>>,
    <<42893,42893,1,-42280>>, <<42896,42898,2,1>>, <<42902,42920,2,1>>,
    <<42922,42922,1,-42308>>, <<42923,42923,1,-42319>>,
    <<42924,42924,1,-42315>>, <<42925,42925,1,-42305>>,
    <<42926,42926,1,-42308>>, <<42928,42928,1,-42258>>,
    <<42929,42929,1,-42282>>, <<42930,42930,1,-42261>>, <<42931,42931,1,928>>,
    <<42932,42946,2,1>>, <<42948,42948,1,-48>>, <<42949,42949,1,-42307>>,
    <<42950,42950,1,-35384>>, <<42951,42953,2,1>>, <<42955,42955,1,-42343>>,
    <<42956,42970,2,1>>, <<42972,42972,1,-42561>>, <<42997,42997,1,1>>,
    <<65313,65338,1,32>>, <<66560,66599,1,40>>, <<66736,66771,1,40>>,
    <<66928,66938,1,39>>, <<66940,66954,1,39>>, <<66956,66962,1,39>>,
    <<66964,66965,1,39>>, <<68736,68786,1,64>>, <<68944,68965,1,32>>,
    <<71840,71871,1,32>>, <<93760,93791,1,32>>, <<93856,93880,1,27>>,
    <<125184,125217,1,34>> >>

\* Code points with the property Case_Ignorable, as ranges <<first, last>>
CaseIgnorableRanges == <<
    <<39,39>>, <<46,46>>, <<58,58>>, <<94,94>>, <<96,96>>, <<168,168>>,
    <<173,173>>, <<175,175>>, <<180,180>>, <<183,184>>, <<688,879>>,
    <<884,885>>, <<890,890>>, <<900,901>>, <<903,903>>, <<1155,1161>>,
    <<1369,1369>>, <<1375,1375>>, <<1425,1469>>, <<1471,1471>>, <<1473,1474>>,
    <<1476,1477>>, <<1479,1479>>, <<1524,1524>>, <<1536,1541>>, <<1552,1562>>,
    <<1564,1564>>, <<1600,1600>>, <<1611,1631>>, <<1648,1648>>, <<1750,1757>>,
    <<1759,1768>>, <<1770,1773>>, <<1807,1807>>, <<1809,1809>>, <<1840,1866>>,
    <<1958,1968>>, <<2027,2037>>, <<2042,2042>>, <<2045,2045>>, <<2070,2093>>,
    <<2137,2139>>, <<2184,2184>>, <<2192,2193>>, <<2199,2207>>, <<2249,2306>>,
    <<2362,2362>>, <<2364,2364>>, <<2369,2376>>, <<2381,2381>>, <<2385,2391>>,
    <<2402,2403>>, <<2417,2417>>, <<2433,2433>>, <<2492,2492>>, <<2497,2500>>,
    <<2509,2509>>, <<2530,2531>>, <<2558,2558>>, <<2561,2562>>, <<2620,2620>>,
    <<2625,2626>>, <<2631,2632>>, <<2635,2637>>, <<2641,2641>>, <<2672,2673>>,
    <<2677,2677>>, <<2689,2690>>, <<2748,2748>>, <<2753,2757>>, <<2759,2760>>,
    <<2765,2765>>, <<2786,2787>>, <<2810,2815>>, <<2817,2817>>, <<2876,2876>>,
    <<2879,2879>>, <<2881,2884>>, <<2893,2893>>, <<2901,2902>>, <<2914,2915>>,
    <<2946,2946>>, <<3008,3008>>, <<3021,3021>>, <<3072,3072>>, <<3076,3076>>,
    <<3132,3132>>, <<3134,3136>>, <<3142,3144>>, <<3146,3149>>, <<3157,3158>>,
    <<3170,3171>>, <<3201,3201>>, <<3260,3260>>, <<3263,3263>>, <<3270,3270>>,
    <<3276,3277>>, <<3298,3299>>, <<3328,3329>>, <<3387,3388>>, <<3393,3396>>,
    <<3405,3405>>, <<3426,3427>>, <<3457,3457>>, <<3530,3530>>, <<3538,3540>>,
    <<3542,3542>>, <<3633,3633>>, <<3636,3642>>, <<3654,3662>>, <<3761,3761>>,
    <<3764,3772>>, <<3782,3782>>, <<3784,3790>>, <<3864,3865>>, <<3893,3893>>,
    <<3895,3895>>, <<3897,3897>>, <<3953,3966>>, <<3968,3972>>, <<3974,3975>>,
    <<3981,3991>>, <<3993,4028>>, <<4038,4038>>, <<4141,4144>>, <<4146,4151>>,
    <<4153,4154>>, <<4157,4158>>, <<4184,4185>>, <<4190,4192>>, <<4209,4212>>,
    <<4226,4226>>, <<4229,4230>>, <<4237,4237>>, <<4253,4253>>, <<4348,4348>>,
    <<4957,4959>>, <<5906,5908>>, <<5938,5939>>, <<5970,5971>>, <<6002,6003>>,
    <<6068,6069>>, <<6071,6077>>, <<6086,6086>>, <<6089,6099>>, <<6103,6103>>,
    <<6109,6109>>, <<6155,6159>>, <<6211,6211>>, <<6277,6278>>, <<6313,6313>>,
    <<6432,6434>>, <<6439,6440>>, <<6450,6450>>, <<6457,6459>>, <<6679,6680>>,
    <<6683,6683>>, <<6742,6742>>, <<6744,6750>>, <<6752,6752>>, <<6754,6754>>,
    <<6757,6764>>, <<6771,6780>>, <<6783,6783>>, <<6823,6823>>, <<6832,6877>>,
    <<6880,6891>>, <<6912,6915>>, <<6964,6964>>, <<6966,6970>>, <<6972,6972>>,
    <<6978,6978>>, <<7019,7027>>, <<7040,7041>>, <<7074,7077>>, <<7080,7081>>,
    <<7083,7085>>, <<7142,7142>>, <<7144,7145>>, <<7149,7149>>, <<7151,7153>>,
    <<7212,7219>>, <<7222,7223>>, <<7288,7293>>, <<7376,7378>>, <<7380,7392>>,
    <<7394,7400>>, <<7405,7405>>, <<7412,7412>>, <<7416,7417>>, <<7468,7530>>,
    <<7544,7544>>, <<7579,7679>>, <<8125,8125>>, <<8127,8129>>, <<8141,8143>>,
    <<8157,8159>>, <<8173,8175>>, <<8189,8190>>, <<8203,8207>>, <<8216,8217>>,
    <<8228,8228>>, <<8231,8231>>, <<8234,8238>>, <<8288,8292>>, <<8294,8303>>,
    <<8305,8305>>, <<8319,8319>>, <<8336,8348>>, <<8400,8432>>,
    <<11388,11389>>, <<11503,11505>>, <<11631,11631>>, <<11647,11647>>,
    <<11744,11775>>, <<11823,11823>>, <<12293,12293>>, <<12330,12333>>,
    <<12337,12341>>, <<12347,12347>>, <<12441,12446>>, <<12540,12542>>,
    <<40981,40981>>, <<42232,42237>>, <<42508,42508>>, <<42607,42610>>,
    <<42612,42621>>, <<42623,42623>>, <<42652,42655>>, <<42736,42737>>,
    <<42752,42785>>, <<42864,42864>>, <<42888,42890>>, <<42993,42996>>,
    <<43000,43001>>, <<43010,43010>>, <<43014,43014>>, <<43019,43019>>,
    <<43045,43046>>, <<43052,43052>>, <<43204,43205>>, <<43232,43249>>,
    <<43263,43263>>, <<43302,43309>>, <<43335,43345>>, <<43392,43394>>,
    <<43443,43443>>, <<43446,43449>>, <<43452,43453>>, <<43471,43471>>,
    <<43493,43494>>, <<43561,43566>>, <<43569,43570>>, <<43573,43574>>,
    <<43587,43587>>, <<43596,43596>>, <<43632,43632>>, <<43644,43644>>,
    <<43696,43696>>, <<43698,43700>>, <<43703,43704>>, <<43710,43711>>,
    <<43713,43713>>, <<43741,43741>>, <<43756,43757>>, <<43763,43764>>,
    <<43766,43766>>, <<43867,43871>>, <<43881,43883>>, <<44005,44005>>,
    <<44008,44008>>, <<44013,44013>>, <<64286,64286>>, <<64434,64450>>,
    <<65024,65039>>, <<65043,65043>>, <<65056,65071>>, <<65106,65106>>,
    <<65109,65109>>, <<65279,65279>>, <<65287,65287>>, <<65294,65294>>,
    <<65306,65306>>, <<65342,65342>>, <<65344,65344>>, <<65392,65392>>,
    <<65438,65439>>, <<65507,65507>>, <<65529,65531>>, <<66045,66045>>,
    <<66272,66272>>, <<66422,66426>>, <<67456,67461>>, <<67463,67504>>,
    <<67506,67514>>, <<68097,68099>>, <<68101,68102>>, <<68108,68111>>,
    <<68152,68154>>, <<68159,68159>>, <<68325,68326>>, <<68900,68903>>,
    <<68942,68942>>, <<68969,68973>>, <<68975,68975>>, <<69291,69292>>,
    <<69317,69317>>, <<69370,69375>>, <<69446,69456>>, <<69506,69509>>,
    <<69633,69633>>, <<69688,69702>>, <<69744,69744>>, <<69747,69748>>,
    <<69759,69761>>, <<69811,69814>>, <<69817,69818>>, <<69821,69821>>,
    <<69826,69826>>, <<69837,69837>>, <<69888,69890>>, <<69927,69931>>,
    <<69933,69940>>, <<70003,70003>>, <<70016,70017>>, <<70070,70078>>,
    <<70089,70092>>, <<70095,70095>>, <<70191,70193>>, <<70196,70196>>,
    <<70198,70199>>, <<70206,70206>>, <<70209,70209>>, <<70367,70367>>,
    <<70371,70378>>, <<70400,70401>>, <<70459,70460>>, <<70464,70464>>,
    <<70502,70508>>, <<70512,70516>>, <<70587,70592>>, <<70606,70606>>,
    <<70608,70608>>, <<70610,70610>>, <<70625,70626>>, <<70712,70719>>,
    <<70722,70724>>, <<70726,70726>>, <<70750,70750>>, <<70835,70840>>,
    <<70842,70842>>, <<70847,70848>>, <<70850,70851>>, <<71090,71093>>,
    <<71100,71101>>, <<71103,71104>>, <<71132,71133>>, <<71219,71226>>,
    <<71229,71229>>, <<71231,71232>>, <<71339,71339>>, <<71341,71341>>,
    <<71344,71349>>, <<71351,71351>>, <<71453,71453>>, <<71455,71455>>,
    <<71458,71461>>, <<71463,71467>>, <<71727,71735>>, <<71737,71738>>,
    <<71995,71996>>, <<71998,71998>>, <<72003,72003>>, <<72148,72151>>,
    <<72154,72155>>, <<72160,72160>>, <<72193,72202>>, <<72243,72248>>,
    <<72251,72254>>, <<72263,72263>>, <<72273,72278>>, <<72281,72283>>,
    <<72330,72342>>, <<72344,72345>>, <<72544,72544>>, <<72546,72548>>,
    <<72550,72550>>, <<72752,72758>>, <<72760,72765>>, <<72767,72767>>,
    <<72850,72871>>, <<72874,72880>>, <<72882,72883>>, <<72885,72886>>,
    <<73009,73014>>, <<73018,73018>>, <<73020,73021>>, <<73023,73029>>,
    <<73031,73031>>, <<73104,73105>>, <<73109,73109>>, <<73111,73111>>,
    <<73177,73177>>, <<73459,73460>>, <<73472,73473>>, <<73526,73530>>,
    <<73536,73536>>, <<73538,73538>>, <<73562,73562>>, <<78896,78912>>,
    <<78919,78933>>, <<90398,90409>>, <<90413,90415>>, <<92912,92916>>,
    <<92976,92982>>, <<92992,92995>>, <<93504,93506>>, <<93547,93548>>,
    <<94031,94031>>, <<94095,94111>>, <<94176,94177>>, <<94179,94180>>,
    <<94194,94195>>, <<110576,110579>>, <<110581,110587>>, <<110589,110590>>,
    <<113821,113822>>, <<113824,113827>>, <<118528,118573>>,
    <<118576,118598>>, <<119143,119145>>, <<119155,119170>>,
    <<119173,119179>>, <<119210,119213>>, <<119362,119364>>,
    <<121344,121398>>, <<121403,121452>>, <<121461,121461>>,
    <<121476,121476>>, <<121499,121503>>, <<121505,121519>>,
    <<122880,122886>>, <<122888,122904>>, <<122907,122913>>,
    <<122915,122916>>, <<122918,122922>>, <<122928,122989>>,
    <<123023,123023>>, <<123184,123197>>, <<123566,123566>>,
    <<123628,123631>>, <<124139,124143>>, <<124398,124399>>,
    <<124643,124643>>, <<124646,124646>>, <<124654,124655>>,
    <<124661,124661>>, <<124671,124671>>, <<125136,125142>>,
    <<125252,125259>>, <<127995,127999>>, <<917505,917505>>,
    <<917536,917631>>, <<917760,917999>> >>

\* Code points with the property Cased that are not Case_Ignorable, as
\* ranges <<first, last>>
CasedRanges == <<
    <<65,90>>, <<97,122>>, <<170,170>>, <<181,181>>, <<186,186>>, <<192,214>>,
    <<216,246>>, <<248,442>>, <<444,447>>, <<452,659>>, <<662,687>>,
    <<880,883>>, <<886,887>>, <<891,893>>, <<895,895>>, <<902,902>>,
    <<904,906>>, <<908,908>>, <<910,929>>, <<931,1013>>, <<1015,1153>>,
    <<1162,1327>>, <<1329,1366>>, <<1376,1416>>, <<4256,4293>>, <<4295,4295>>,
    <<4301,4301>>, <<4304,4346>>, <<4349,4351>>, <<5024,5109>>, <<5112,5117>>,
    <<7296,7306>>, <<7312,7354>>, <<7357,7359>>, <<7424,7467>>, <<7531,7543>>,
    <<7545,7578>>, <<7680,7957>>, <<7960,7965>>, <<7968,8005>>, <<8008,8013>>,
    <<8016,8023>>, <<8025,8025>>, <<8027,8027>>, <<8029,8029>>, <<8031,8061>>,
    <<8064,8116>>, <<8118,8124>>, <<8126,8126>>, <<8130,8132>>, <<8134,8140>>,
    <<8144,8147>>, <<8150,8155>>, <<8160,8172>>, <<8178,8180>>, <<8182,8188>>,
    <<8450,8450>>, <<8455,8455>>, <<8458,8467>>, <<8469,8469>>, <<8473,8477>>,
    <<8484,8484>>, <<8486,8486>>, <<8488,8488>>, <<8490,8493>>, <<8495,8500>>,
    <<8505,8505>>, <<8508,8511>>, <<8517,8521>>, <<8526,8526>>, <<8544,8575>>,
    <<8579,8580>>, <<9398,9449>>, <<11264,11387>>, <<11390,11492>>,
    <<11499,11502>>, <<11506,11507>>, <<11520,11557>>, <<11559,11559>>,
    <<11565,11565>>, <<42560,42605>>, <<42624,42651>>, <<42786,42863>>,
    <<42865,42887>>, <<42891,42894>>, <<42896,42972>>, <<42997,42998>>,
    <<43002,43002>>, <<43824,43866>>, <<43872,43880>>, <<43888,43967>>,
    <<64256,64262>>, <<64275,64279>>, <<65313,65338>>, <<65345,65370>>,
    <<66560,66639>>, <<66736,66771>>, <<66776,66811>>, <<66928,66938>>,
    <<66940,66954>>, <<66956,66962>>, <<66964,66965>>, <<66967,66977>>,
    <<66979,66993>>, <<66995,67001>>, <<67003,67004>>, <<68736,68786>>,
    <<68800,68850>>, <<68944,68965>>, <<68976,68997>>, <<71840,71903>>,
    <<93760,93823>>, <<93856,93880>>, <<93883,93907>>, <<119808,119892>>,
    <<119894,119964>>, <<119966,119967>>, <<119970,119970>>,
    <<119973,119974>>, <<119977,119980>>, <<119982,119993>>,
    <<119995,119995>>, <<119997,120003>>, <<120005,120069>>,
    <<120071,120074>>, <<120077,120084>>, <<120086,120092>>,
    <<120094,120121>>, <<120123,120126>>, <<120128,120132>>,
    <<120134,120134>>, <<120138,120144>>, <<120146,120485>>,
    <<120488,120512>>, <<120514,120538>>, <<120540,120570>>,
    <<120572,120596>>, <<120598,120628>>, <<120630,120654>>,
    <<120656,120686>>, <<120688,120712>>, <<120714,120744>>,
    <<120746,120770>>, <<120772,120779>>, <<122624,122633>>,
    <<122635,122654>>, <<122661,122666>>, <<125184,125251>>,
    <<127280,127305>>, <<127312,127337>>, <<127344,127369>> >>

InRun(c, r) == r[1] <= c /\ c <= r[2] /\ (c - r[1]) % r[3] = 0

InRanges(c, rs) == \E k \in 1..Len(rs) : rs[k][1] <= c /\ c <= rs[k][2]

LowerChar_Identity(c) == c

\* the lower-case code point of the code point c
LowerChar(c) ==
    IF \E k \in 1..Len(LowerRuns) : InRun(c, LowerRuns[k])
    THEN c + LowerRuns[CHOOSE k \in 1..Len(LowerRuns) : InRun(c, LowerRuns[k])][4]
    ELSE c

IsLeadSurrogate(u) == 55296 <= u /\ u <= 56319
IsTrailSurrogate(u) == 56320 <= u /\ u <= 57343

\* the code points of the code units of s from position i on; a surrogate
\* without its pair is a code point of its own
RECURSIVE CodePoints(_, _)
CodePoints(s, i) ==
    IF i > Len(s) THEN <<>>
    ELSE IF IsLeadSurrogate(s[i]) /\ i < Len(s) /\ IsTrailSurrogate(s[i + 1])
    THEN <<65536 + (s[i] - 55296) * 1024 + (s[i + 1] - 56320)>>
             \o CodePoints(s, i + 2)
    ELSE <<s[i]>> \o CodePoints(s, i + 1)

\* the code units of the code point cp
Utf16(cp) ==
    IF cp < 65536 THEN <<cp>>
    ELSE <<55296 + ((cp - 65536) \div 1024), 56320 + ((cp - 65536) % 1024)>>

\* a cased letter comes before position i, case-ignorable code points skipped
RECURSIVE CasedBefore(_, _)
CasedBefore(cps, i) ==
    IF i < 1 THEN FALSE
    ELSE IF InRanges(cps[i], CaseIgnorableRanges) THEN CasedBefore(cps, i - 1)
    ELSE InRanges(cps[i], CasedRanges)

\* a cased letter comes after position i, case-ignorable code points skipped
RECURSIVE CasedAfter(_, _)
CasedAfter(cps, i) ==
    IF i > Len(cps) THEN FALSE
    ELSE IF InRanges(cps[i], CaseIgnorableRanges) THEN CasedAfter(cps, i + 1)
    ELSE InRanges(cps[i], CasedRanges)

\* the condition Final_Sigma of SpecialCasing for the sigma at position i
FinalSigma(cps, i) == CasedBefore(cps, i - 1) /\ ~CasedAfter(cps, i + 1)

\* the lower case of the code point at position i, in code units: U+0130
\* gives i and U+0307, a capital sigma at the end of a word the final sigma
LowerAt(cps, i) ==
    IF cps[i] = 304 THEN <<105, 775>>
    ELSE IF cps[i] = 931 /\ FinalSigma(cps, i) THEN <<962>>
    ELSE Utf16(LowerChar(cps[i]))

RECURSIVE LowerFrom(_, _)
LowerFrom(cps, i) ==
    IF i > Len(cps) THEN <<>> ELSE LowerAt(cps, i) \o LowerFrom(cps, i + 1)

\* String.prototype.toLowerCase
toLowerCase(s) == LowerFrom(CodePoints(s, 1), 1)

RECURSIVE LeadingWhite(_, _)
LeadingWhite(s, i) ==
    IF i <= Len(s) /\ s[i] \in WhiteSpace THEN 1 + LeadingWhite(s, i + 1) ELSE 0

RECURSIVE TrailingWhite(_, _)
TrailingWhite(s, i) ==
    IF i >= 1 /\ s[i] \in WhiteSpace THEN 1 + TrailingWhite(s, i - 1) ELSE 0

\* String.prototype.trim
trim(s) ==
    LET a == LeadingWhite(s, 1)
        b == TrailingWhite(s, Len(s))
    IN  IF a = Len(s) THEN <<>> ELSE SubSeq(s, a + 1, Len(s) - b)

\* JavaScript `a || b` on strings: the empty string is falsy
OrDefault(s, d) == IF s = <<>> THEN d ELSE s

-----------------------------------------------------------------------------
(* Natural numbers of any size: little-endian sequences of digits in base  *)
(* 4096 without leading zero digits; <<>> is 0.                            *)

Limb == 2 * 2048

RECURSIVE Pow2(_)
Pow2(n) == IF n <= 0 THEN 1 ELSE 2 * Pow2(n - 1)

RECURSIVE BigFromInt(_)
BigFromInt(n) == IF n = 0 THEN <<>> ELSE <<n % Limb>> \o BigFromInt(n \div Limb)

RECURSIVE BigToInt(_)
BigToInt(b) == IF b = <<>> THEN 0 ELSE b[1] + Limb * BigToInt(Tail(b))

RECURSIVE BigStrip(_)
BigStrip(b) ==
    IF b # <<>> /\ b[Len(b)] = 0 THEN BigStrip(SubSeq(b, 1, Len(b) - 1)) ELSE b

\* b * k + carry, from digit i on  (k < 2^18)
RECURSIVE BigMulFrom(_, _, _, _)
BigMulFrom(b, i, k, carry) ==
    IF i > Len(b) THEN BigFromInt(carry)
    ELSE LET t == b[i] * k + carry
         IN  <<t % Limb>> \o BigMulFrom(b, i + 1, k, t \div Limb)

BigMulSmall(b, k) == BigStrip(BigMulFrom(b, 1, k, 0))
BigAddSmall(b, k) == BigStrip(BigMulFrom(b, 1, 1, k))

\* digits i..1 of b divided by v with incoming remainder rem  (v < 2^19)
RECURSIVE BigDivFrom(_, _, _, _)
BigDivFrom(b, i, v, rem) ==
    IF i = 0 THEN [q |-> <<>>, r |-> rem]
    ELSE LET t     == rem * Limb + b[i]
             lower == BigDivFrom(b, i - 1, v, t % v)
         IN  [q |-> Append(lower.q, t \div v), r |-> lower.r]

\* quotient and remainder of b by the small number v
BigDivSmall(b, v) ==
    LET d == BigDivFrom(b, Len(b), v, 0) IN [q |-> BigStrip(d.q), r |-> d.r]

RECURSIVE BitsOf(_)
BitsOf(n) == IF n = 0 THEN 0 ELSE 1 + BitsOf(n \div 2)

BitLen(b) == IF b = <<>> THEN 0 ELSE 12 * (Len(b) - 1) + BitsOf(b[Len(b)])

RECURSIVE BigShiftLeft(_, _)
BigShiftLeft(b, n) ==
    IF n = 0 THEN b
    ELSE IF n >= 12 THEN BigShiftLeft(IF b = <<>> THEN b ELSE <<0>> \o b, n - 12)
    ELSE BigMulSmall(b, Pow2(n))

\* floor(b / 2^n)
RECURSIVE BigShiftRight(_, _)
BigShiftRight(b, n) ==
    IF n = 0 \/ b = <<>> THEN b
    ELSE IF n >= 12 THEN BigShiftRight(Tail(b), n - 12)
    ELSE BigDivSmall(b, Pow2(n)).q

BigIsOdd(b) == b # <<>> /\ b[1] % 2 = 1

\* b mod 2^n = 0
RECURSIVE BigLowZero(_, _)
BigLowZero(b, n) ==
    IF n = 0 \/ b = <<>> THEN TRUE
    ELSE IF n >= 12 THEN b[1] = 0 /\ BigLowZero(Tail(b), n - 12)
    ELSE b[1] % Pow2(n) = 0

-----------------------------------------------------------------------------
(* Numbers: the IEEE 754 doubles of JavaScript.  A finite double is        *)
(* (-1)^neg * mant * 2^exp with mant a natural number below 2^53; results  *)
(* are rounded to nearest, ties to even, as the language prescribes.       *)

NaN == [kind |-> "nan", neg |-> FALSE, mant |-> <<>>, exp |-> 0]
Inf(neg) == [kind |-> "inf", neg |-> neg, mant |-> <<>>, exp |-> 0]
Num(neg, mant, exp) == [kind |-> "num", neg |-> neg, mant |-> mant, exp |-> exp]

\* quotient q with remainder r of a division by v, rounded to nearest-even
RoundedQuotient(d, v) ==
    IF 2 * d.r > v \/ (2 * d.r = v /\ BigIsOdd(d.q))
    THEN BigAddSmall(d.q, 1) ELSE d.q

\* the double nearest to big * 2^exp, for big of at most 53 + 12 bits
RoundToDouble(neg, big, exp) ==
    LET n == BitLen(big) - 53
    IN  IF n <= 0 THEN Num(neg, big, exp)
        ELSE LET m == RoundedQuotient(BigDivSmall(big, Pow2(n)), Pow2(n))
             IN  IF BitLen(m) > 53
                 THEN Num(neg, BigShiftRight(m, 1), exp + n + 1)
                 ELSE Num(neg, m, exp + n)

\* the product of the double x and the whole number k (k < 4096), rounded
TimesSmall(x, k) ==
    IF x.kind = "num" THEN RoundToDouble(x.neg, BigMulSmall(x.mant, k), x.exp)
    ELSE x

\* the double nearest to the decimal m / 10^s  (0 <= m < 2^31, 0 <= s <= 5)
DecimalToDouble(neg, m, s) ==
    IF m = 0 THEN Num(neg, <<>>, 0)
    ELSE LET v  == Pow10(s)
             t  == 53 - BitsOf(m) + BitsOf(v)
             d1 == BigDivSmall(BigShiftLeft(BigFromInt(m), t), v)
             d2 == BigDivSmall(BigShiftLeft(BigFromInt(m), t - 1), v)
         IN  IF BitLen(d1.q) = 53
             THEN RoundToDouble(neg, RoundedQuotient(d1, v), 0 - t)
             ELSE RoundToDouble(neg, RoundedQuotient(d2, v), 1 - t)

\* x is a whole number
IsWhole(x) ==
    x.kind = "num" /\ (x.exp >= 0 \/ BigLowZero(x.mant, 0 - x.exp))

\* floor(x) for a finite double x of magnitude below 2^31
Floor(x) ==
    LET a == IF x.exp >= 0 THEN BigToInt(BigShiftLeft(x.mant, x.exp))
             ELSE BigToInt(BigShiftRight(x.mant, 0 - x.exp))
    IN  IF ~x.neg THEN a
        ELSE IF IsWhole(x) THEN 0 - a ELSE 0 - a - 1

\* the code units of the decimal digits 0..9 are 48..57
IsDigit(c) == 48 <= c /\ c <= 57
DigitVal(c) == c - 48

\* length of the run of digits of s that starts at position i
RECURSIVE DigitRun(_, _)
DigitRun(s, i) ==
    IF i <= Len(s) /\ IsDigit(s[i]) THEN 1 + DigitRun(s, i + 1) ELSE 0

\* value of the n digits of s that start at position i
RECURSIVE DigitsValue(_, _, _)
DigitsValue(s, i, n) ==
    IF n = 0 THEN 0
    ELSE 10 * DigitsValue(s, i, n - 1) + DigitVal(s[i + n - 1])

HasPrefixAt(s, i, p) ==
    /\ i + Len(p) - 1 <= Len(s)
    /\ \A k \in 1..Len(p) : s[i + k - 1] = p[k]

\* the code units of the characters of the grammars of parseFloat and
\* parseInt
MinusSign == {CodeUnit("-")}
Signs == {CodeUnit("+"), CodeUnit("-")}
ExponentIndicator == {CodeUnit("e"), CodeUnit("E")}
DecimalPoint == {CodeUnit(".")}
InfinityStr == CodeUnits(<<"I","n","f","i","n","i","t","y">>)
HexPrefixes == {CodeUnits(<<"0","x">>), CodeUnits(<<"0","X">>)}

IsCharAt(str, i, cs) == i <= Len(str) /\ str[i] \in cs

\* the decimal (-1)^neg * m * 10^(-sc)
Decimal(neg, m, sc) ==
    IF sc >= 0 THEN [kind |-> "num", neg |-> neg, m |-> m, s |-> sc]
    ELSE [kind |-> "num", neg |-> neg, m |-> m * Pow10(0 - sc), s |-> 0]

\* the digits of an ExponentPart from position i4 on; without digits there
\* is no exponent part
LiteralExpDigits(str, neg, m, nFrac, eNeg, i4) ==
    Decimal(neg, m,
            IF eNeg THEN nFrac + DigitsValue(str, i4, DigitRun(str, i4))
                    ELSE nFrac - DigitsValue(str, i4, DigitRun(str, i4)))

\* an optional ExponentPart at position i3
LiteralExponent(str, neg, m, nFrac, i3) ==
    IF IsCharAt(str, i3, ExponentIndicator)
    THEN LiteralExpDigits(str, neg, m, nFrac, IsCharAt(str, i3 + 1, MinusSign),
                          IF IsCharAt(str, i3 + 1, Signs) THEN i3 + 2 ELSE i3 + 1)
    ELSE Decimal(neg, m, nFrac)

\* nInt integer digits at i1 and nFrac fraction digits read: a literal needs
\* one digit at least
LiteralFraction(str, neg, i1, nInt, nFrac) ==
    IF nInt + nFrac = 0 THEN [kind |-> "nan", neg |-> FALSE, m |-> 0, s |-> 0]
    ELSE LiteralExponent(str, neg,
             DigitsValue(str, i1, nInt) * Pow10(nFrac)
                 + DigitsValue(str, i1 + nInt + 1, nFrac),
             nFrac,
             IF IsCharAt(str, i1 + nInt, DecimalPoint) THEN i1 + nInt + 1 + nFrac
                                                ELSE i1 + nInt)

LiteralDigits(str, neg, i1, nInt) ==
    LiteralFraction(str, neg, i1, nInt,
                    IF IsCharAt(str, i1 + nInt, DecimalPoint)
                    THEN DigitRun(str, i1 + nInt + 1) ELSE 0)

LiteralUnsigned(str, neg, i1) ==
    IF HasPrefixAt(str, i1, InfinityStr)
    THEN [kind |-> "inf", neg |-> neg, m |-> 0, s |-> 0]
    ELSE LiteralDigits(str, neg, i1, DigitRun(str, i1))

LiteralSigned(str, i0) ==
    LiteralUnsigned(str, IsCharAt(str, i0, MinusSign),
                    IF IsCharAt(str, i0, Signs) THEN i0 + 1 ELSE i0)

\* the decimal that parseFloat reads: the longest prefix of the string, after
\* leading white space, that is a StrDecimalLiteral, as (-1)^neg * m / 10^s
StrDecimalLiteral(str) == LiteralSigned(str, 1 + LeadingWhite(str, 1))

ToNumber_NaNAsDefault(dec) ==
    IF dec.kind = "num" THEN DecimalToDouble(dec.neg, dec.m, dec.s)
    ELSE IF dec.kind = "inf" THEN Inf(dec.neg)
    ELSE DecimalToDouble(FALSE, 7, 0)

\* the Number value of the decimal read: the nearest double
ToNumber(dec) ==
    IF dec.kind = "num" THEN DecimalToDouble(dec.neg, dec.m, dec.s)
    ELSE IF dec.kind = "inf" THEN Inf(dec.neg)
    ELSE NaN

\* the global parseFloat
parseFloat(str) == ToNumber(StrDecimalLiteral(str))

\* the integers that parseInt returns, and its NaN
IntNaN == [kind |-> "nan", value |-> 0]
IntNum(neg, n) == [kind |-> "int", value |-> IF neg THEN 0 - n ELSE n]

\* the value of a digit: 0..9, and a..z or A..Z for 10..35; 36 for any
\* other code unit
RadixVal(c) ==
    IF 48 <= c /\ c <= 57 THEN c - 48
    ELSE IF 97 <= c /\ c <= 122 THEN c - 87
    ELSE IF 65 <= c /\ c <= 90 THEN c - 55
    ELSE 36

IsRadixDigit(c, radix) == RadixVal(c) < radix

\* length of the run of digits of the radix that starts at position i
RECURSIVE RadixRun(_, _, _)
RadixRun(s, i, radix) ==
    IF i <= Len(s) /\ IsRadixDigit(s[i], radix)
    THEN 1 + RadixRun(s, i + 1, radix) ELSE 0

\* value of the n digits of s that start at position i
RECURSIVE RadixValue(_, _, _, _)
RadixValue(s, i, n, radix) ==
    IF n = 0 THEN 0
    ELSE radix * RadixValue(s, i, n - 1, radix) + RadixVal(s[i + n - 1])

\* the digits from position i on; without a digit the result is NaN
IntegerDigits(str, neg, i, radix) ==
    IF RadixRun(str, i, radix) = 0 THEN IntNaN
    ELSE IntNum(neg, RadixValue(str, i, RadixRun(str, i, radix), radix))

\* a 0x or 0X prefix selects radix 16
IntegerUnsigned(str, neg, i) ==
    IF \E p \in HexPrefixes : HasPrefixAt(str, i, p)
    THEN IntegerDigits(str, neg, i + 2, 16)
    ELSE IntegerDigits(str, neg, i, 10)

IntegerSigned(str, i0) ==
    IntegerUnsigned(str, IsCharAt(str, i0, MinusSign),
                    IF IsCharAt(str, i0, Signs) THEN i0 + 1 ELSE i0)

\* the global parseInt without a radix: white space, sign, prefix, digits
parseInt(str) == IntegerSigned(str, 1 + LeadingWhite(str, 1))

-----------------------------------------------------------------------------
(* Time *)

DayMs == 86400000

\* new Date(run.run_started_at).getTime()
getTime(t) == t[1] * DayMs + t[2]

timeToLookBackMs_SevenDays(d) ==
    TimesSmall(TimesSmall(TimesSmall(TimesSmall(
        DecimalToDouble(FALSE, 7, 0), 24), 60), 60), 1000)

\* daysToLookBack * 24 * 60 * 60 * 1000  (index.ts:24), each product rounded
timeToLookBackMs(d) ==
    TimesSmall(TimesSmall(TimesSmall(TimesSmall(d, 24), 60), 60), 1000)

\* what a comparison of a whole number with the double x depends on:
\* n <= x iff n <= floor(x)
Threshold(x) ==
    [kind |-> x.kind, neg |-> x.neg,
     floor |-> IF x.kind = "num" THEN Floor(x) ELSE 0,
     whole |-> IsWhole(x)]

AgeWithin_Strict(age, ttl) ==
    \/ ttl.kind = "inf" /\ ~ttl.neg
    \/ ttl.kind = "num" /\ (IF ttl.whole THEN age < ttl.floor ELSE age <= ttl.floor)

\* age <= timeToLookBackMs  (index.ts:28); any comparison with NaN is false
AgeWithin(age, ttl) ==
    \/ ttl.kind = "inf" /\ ~ttl.neg
    \/ ttl.kind = "num" /\ age <= ttl.floor

-----------------------------------------------------------------------------
(* Configuration: getParsedInput (index.ts:54-74) *)

TrueStr == CodeUnits(<<"t","r","u","e">>)
FalseStr == CodeUnits(<<"f","a","l","s","e">>)
SevenStr == CodeUnits(<<"7">>)

\* checkOutsideWindowInput  (index.ts:62)
checkOutsideWindowInput(raw) == OrDefault(trim(toLowerCase(raw)), TrueStr)

\* daysToLookBackInput  (index.ts:61)
daysToLookBackInput(raw) == OrDefault(raw, SevenStr)

ReleaseYml == CodeUnits(<<"r","e","l","e","a","s","e",".","y","m","l">>)
MainStr == CodeUnits(<<"m","a","i","n">>)
FiftyStr == CodeUnits(<<"5","0">>)

\* workflowId  (index.ts:57)
workflowIdInput(raw) == OrDefault(raw, ReleaseYml)

\* branch  (index.ts:58)
branchInput(raw) == OrDefault(raw, MainStr)

perPageInput_Default(raw) == FiftyStr

\* perPage  (index.ts:60)
perPageInput(raw) == OrDefault(raw, FiftyStr)

getParsedInput_TrueUnlessFalse(e) ==
    [ owner              |-> e.context.repo.owner,
      repo               |-> e.context.repo.repo,
      workflowId         |-> workflowIdInput(e.workflow_id),
      branch             |-> branchInput(e.branch),
      perPage            |-> parseInt(perPageInput(e.per_page)),
      token              |-> OrDefault(e.github_token, e.GITHUB_TOKEN),
      daysToLookBack     |-> parseFloat(daysToLookBackInput(e.days_to_look_back)),
      checkOutsideWindow |->
          checkOutsideWindowInput(e.check_outside_window) # FalseStr ]

getParsedInput(e) ==
    [ owner              |-> e.context.repo.owner,
      repo               |-> e.context.repo.repo,
      workflowId         |-> workflowIdInput(e.workflow_id),
      branch             |-> branchInput(e.branch),
      perPage            |-> parseInt(perPageInput(e.per_page)),
      token              |-> OrDefault(e.github_token, e.GITHUB_TOKEN),
      daysToLookBack     |-> parseFloat(daysToLookBackInput(e.days_to_look_back)),
      checkOutsideWindow |-> checkOutsideWindowInput(e.check_outside_window) = TrueStr ]

-----------------------------------------------------------------------------
(* Evaluation: the continuation of checkWorkflowStatus (index.ts:18-47) *)

Null == "null"
NoTime == <<>>

NoRuns_Never(runs) == FALSE

\* workflowRuns.length === 0  (index.ts:19)
NoRuns(runs) == Len(runs) = 0

IsSuccess_NotFailure(run) == run.conclusion # "failure"

\* run.conclusion === 'success'  (index.ts:34, 41)
IsSuccess(run) == run.conclusion = "success"

\* run.run_started_at is truthy  (index.ts:28)
HasStart(run) == run.run_started_at # NoTime

\* Date.now() - new Date(run.run_started_at).getTime(), with Date.now() = now
Age(run, now) == now - getTime(run.run_started_at)

InWindow_NoStartCheck(run, now, ttl) ==
    IF HasStart(run) THEN AgeWithin(Age(run, now), ttl) ELSE TRUE

InWindow_NoFuture(run, now, ttl) ==
    HasStart(run) /\ Age(run, now) >= 0 /\ AgeWithin(Age(run, now), ttl)

\* the filter predicate  (index.ts:28)
InWindow(run, now, ttl) ==
    HasStart(run) /\ AgeWithin(Age(run, now), ttl)

\* Array.prototype.filter over runs[1..n], run i examined at time clk[i]
RECURSIVE FilterRuns(_, _, _, _)
FilterRuns(runs, clk, ttl, n) ==
    IF n = 0 THEN <<>>
    ELSE LET rest == FilterRuns(runs, clk, ttl, n - 1)
         IN  IF InWindow(runs[n], clk[n], ttl)
             THEN Append(rest, runs[n]) ELSE rest

recentWorkflowRuns_Unfiltered(runs, clk, ttl) == runs

recentWorkflowRuns_Reversed(runs, clk, ttl) ==
    LET kept == FilterRuns(runs, clk, ttl, Len(runs))
    IN  [j \in 1..Len(kept) |-> kept[Len(kept) + 1 - j]]

\* recentWorkflowRuns  (index.ts:27-29)
recentWorkflowRuns(runs, clk, ttl) == FilterRuns(runs, clk, ttl, Len(runs))

hasSuccess_Every(rec) == \A i \in 1..Len(rec) : IsSuccess(rec[i])

\* recentWorkflowRuns.some(run => run.conclusion === 'success')  (index.ts:41)
hasSuccess(rec) == \E i \in 1..Len(rec) : IsSuccess(rec[i])

BoolStr(b) == IF b THEN "true" ELSE "false"

Published_FailedOnTrue(v, rec, reads) ==
    [threw |-> v = "true", value |-> v, recent |-> rec, firstReads |-> reads]

\* the two ways the try block ends: setOutput('has_previous_failure', v), or
\* an exception; rec is <<recentWorkflowRuns>> if the filter has run and
\* reads the number of reads of workflowRuns[0]
Published(v, rec, reads) ==
    [threw |-> FALSE, value |-> v, recent |-> rec, firstReads |-> reads]
Thrown(rec) ==
    [threw |-> TRUE, value |-> "", recent |-> rec, firstReads |-> 0]

MostRecentIndex_Last(runs) == Len(runs)

MostRecentIndex_FirstTimestamped(runs) ==
    IF \E i \in 1..Len(runs) : HasStart(runs[i])
    THEN CHOOSE i \in 1..Len(runs) :
            HasStart(runs[i]) /\ \A j \in 1..(i - 1) : ~HasStart(runs[j])
    ELSE 1

\* the position read by workflowRuns[0]  (index.ts:34), 1-based
MostRecentIndex(runs) == 1

OutsideWindow_IgnoreFlag(runs, rec, inp) ==
    IF Len(runs) = 0 THEN Thrown(<<rec>>)
    ELSE Published(BoolStr(~IsSuccess(runs[MostRecentIndex(runs)])), <<rec>>, 1)

OutsideWindow_AnyRun(runs, rec, inp) ==
    IF inp.checkOutsideWindow
    THEN IF Len(runs) = 0 THEN Thrown(<<rec>>)
         ELSE Published(BoolStr(\E i \in 1..Len(runs) : ~IsSuccess(runs[i])),
                        <<rec>>, 1)
    ELSE Published("false", <<rec>>, 0)

\* no run within the window  (index.ts:32-38); reading .conclusion of
\* workflowRuns[0] of an empty array is a TypeError
OutsideWindow(runs, rec, inp) ==
    IF inp.checkOutsideWindow
    THEN IF Len(runs) = 0 THEN Thrown(<<rec>>)
         ELSE Published(BoolStr(~IsSuccess(runs[MostRecentIndex(runs)])), <<rec>>, 1)
    ELSE Published("false", <<rec>>, 0)

SuccessCandidates_AllRuns(runs, rec) == runs

\* the runs searched for a success  (index.ts:41)
SuccessCandidates(runs, rec) == rec

\* index.ts:18-47: what the continuation does with the fetched runs; ttl is
\* timeToLookBackMs (index.ts:24) as the comparisons of the filter see it
Evaluate(runs, clk, inp, ttl) ==
    IF NoRuns(runs) THEN Published("false", <<>>, 0)
    ELSE LET rec == recentWorkflowRuns(runs, clk, ttl)
         IN  IF Len(rec) = 0 THEN OutsideWindow(runs, rec, inp)
             ELSE IF hasSuccess(SuccessCandidates(runs, rec))
                  THEN Published("false", <<rec>>, 0)
                  ELSE Published("true", <<rec>>, 0)

-----------------------------------------------------------------------------
(* Inputs of the model *)

Str_true  == CodeUnits(<<"t","r","u","e">>)
Str_TRUE  == CodeUnits(<<"T","R","U","E">>)
Str_True  == CodeUnits(<<"T","r","u","e">>)
Str_false == CodeUnits(<<"f","a","l","s","e">>)
Str_FALSE == CodeUnits(<<"F","A","L","S","E">>)
Str_False == CodeUnits(<<"F","a","l","s","e">>)
Str_empty == <<>>
Str_blank == CodeUnits(<<" "," ">>)
Str_padTrue == CodeUnits(<<" ","T","r","u","e","\t">>)
\* 'TRUE' between white space outside the blank and the tab: a form feed and
\* an em space (U+2003) before, a vertical tab and U+FEFF behind
Str_feedTrue == <<12, 8195>> \o CodeUnits(<<"T","R","U","E">>) \o <<11, 65279>>
\* 'true' behind a capital E with acute accent (U+00C9)
Str_accentTrue == <<201>> \o CodeUnits(<<"t","r","u","e">>)
Str_yes   == CodeUnits(<<"y","e","s">>)
Str_one   == CodeUnits(<<"1">>)
Str_abc   == CodeUnits(<<"a","b","c">>)
Str_0      == CodeUnits(<<"0">>)
Str_point3 == CodeUnits(<<"0",".","3">>)
Str_point4 == CodeUnits(<<"0",".","4">>)
Str_7point5 == CodeUnits(<<"7",".","5">>)
Str_8      == CodeUnits(<<"8">>)
\* '12' and '0.3' behind a form feed and an em space
Str_feed12 == <<12, 8195>> \o CodeUnits(<<"1","2">>)
Str_feedPoint3 == <<12, 8195>> \o Str_point3

FlagInputs == { Str_true, Str_TRUE, Str_True, Str_false, Str_FALSE, Str_False,
                Str_empty, Str_blank, Str_padTrue, Str_feedTrue, Str_yes,
                Str_one, Str_accentTrue }

\* the default (7 days), 0.4 and 0.3 days, and a string that is no number
DaysInputs ==
    { <<>>, Str_point4, Str_point3,
      Str_abc }

Token == CodeUnits(<<"t","o","k">>)

\* context.repo of the invoking repository, and another repository
InvokingRepo ==
    [repo |-> [owner |-> CodeUnits(<<"o","r","g">>),
               repo |-> CodeUnits(<<"a","p","p">>)]]
OtherOwner == CodeUnits(<<"e","v","e">>)
OtherRepo == CodeUnits(<<"l","i","b">>)

\* the environment of a run that sets the token input and nothing else
BaseEnv ==
    [ context |-> InvokingRepo,
      owner |-> <<>>, repo |-> <<>>,
      workflow_id |-> <<>>, branch |-> <<>>, per_page |-> <<>>,
      github_token |-> Token, GITHUB_TOKEN |-> <<>>,
      days_to_look_back |-> <<>>, check_outside_window |-> <<>> ]

\* the environments an invocation starts in: every flag spelling with the
\* default lookback, every lookback with the fallback on and off, and one
\* environment without a token
Configs ==
    { [BaseEnv EXCEPT !.check_outside_window = f] : f \in FlagInputs }
    \cup
    { [BaseEnv EXCEPT !.github_token = <<>>, !.GITHUB_TOKEN = Token,
                      !.days_to_look_back = d, !.check_outside_window = f] :
         d \in DaysInputs, f \in {Str_empty, Str_false} }
    \cup
    { [BaseEnv EXCEPT !.github_token = <<>>] }

Str_ciYml == CodeUnits(<<"c","i",".","y","m","l">>)
Str_dev   == CodeUnits(<<"d","e","v">>)
Str_100   == CodeUnits(<<"1","0","0">>)

\* spellings of per_page: absent, whole numbers, whole numbers behind white
\* space, and strings that parseInt reads only in part or not at all
PerPageInputs ==
    { <<>>, Str_100, CodeUnits(<<"5">>), CodeUnits(<<" ","7">>), Str_feed12,
      CodeUnits(<<"1","2",".","7">>), CodeUnits(<<"0","x","1","F">>),
      CodeUnits(<<"-","3">>), Str_abc }

\* the environments that vary the parameters of the fetch: every per_page
\* alone, each other input alone, and all of them together
ParamConfigs ==
    { [BaseEnv EXCEPT !.per_page = p] : p \in PerPageInputs }
    \cup
    { [BaseEnv EXCEPT !.workflow_id = Str_ciYml],
      [BaseEnv EXCEPT !.branch = Str_dev],
      [BaseEnv EXCEPT !.owner = OtherOwner, !.repo = OtherRepo],
      [BaseEnv EXCEPT !.owner = OtherOwner, !.repo = OtherRepo,
                      !.workflow_id = Str_ciYml, !.branch = Str_dev,
                      !.per_page = Str_100] }

\* lookbacks below and above seven days, whole and fractional, and one
\* behind a form feed and an em space
LookbackInputs ==
    { <<>>, Str_8, Str_7point5,
      Str_point4, Str_point3, Str_feedPoint3 }

\* the environments that vary the lookback alone
LookbackConfigs ==
    { [BaseEnv EXCEPT !.days_to_look_back = d] : d \in LookbackInputs }

\* the environments of a runner whose clock is behind: the default lookback,
\* a lookback of zero and a fraction of a day
SkewConfigs ==
    { [BaseEnv EXCEPT !.days_to_look_back = d] :
        d \in { <<>>, Str_0, Str_point3 } }

\* the environments of the local test scripts: scripts/test.ts sets
\* GITHUB_TOKEN only, testlocally.ts sets INPUT_GITHUB_TOKEN as well, and
\* the script as committed with an empty token sets neither
ScriptConfigs ==
    { [BaseEnv EXCEPT !.github_token = <<>>, !.GITHUB_TOKEN = Token],
      [BaseEnv EXCEPT !.GITHUB_TOKEN = Token],
      [BaseEnv EXCEPT !.github_token = <<>>] }

\* the evaluation happens on day 10, 00:00:00.000
Now0 == getTime(<<10, 0>>)

\* start times: none, and seven days and three tenths of a day before Now0
Starts == { NoTime, <<3, 0>>, <<9, 60480000>> }
Conclusions == { "success", "failure", "cancelled", Null }

\* a fetched list: the run at position i carries id i
RunFields == [run_started_at : Starts, conclusion : Conclusions]
MakeRun(i, f) ==
    [id |-> i, run_started_at |-> f.run_started_at, conclusion |-> f.conclusion]
RunLists ==
    UNION { { [i \in 1..n |-> MakeRun(i, fs[i])] : fs \in [1..n -> RunFields] } :
            n \in 0..MaxRuns }

\* the readings of Date.now() by a filter that starts at time t0: the clock
\* never runs backwards while the filter runs
ClockReadingsFrom(t0, n) ==
    { c \in [1..n -> t0..(t0 + MaxTicks)] :
        \A i \in 1..n, j \in 1..n : i <= j => c[i] <= c[j] }

\* the readings of a runner whose clock agrees with the provider's
ClockReadings(n) == ClockReadingsFrom(Now0, n)

-----------------------------------------------------------------------------
(* The invocation *)

FailedMessage ==
    CodeUnits(<<"F","a","i","l","e","d"," ","t","o"," ","c","h","e","c","k"," ",
      "t","h","e"," ","w","o","r","k","f","l","o","w"," ",
      "s","t","a","t","u","s">>)

\* the state of a process before index.ts is evaluated
Fresh ==
    /\ pc = "start"
    /\ input = <<>>
    /\ fetchCalls = 0
    /\ requests = <<>>
    /\ evaluations = 0
    /\ response = <<>>
    /\ clock = <<>>
    /\ lookback = <<>>
    /\ recent = <<>>
    /\ firstReads = 0
    /\ outputs = <<>>
    /\ failures = <<>>

\* the action: index.ts is the entry point
Init ==
    /\ skew = 0
    /\ env \in Configs
    /\ entry = "action"
    /\ scriptCall = "none"
    /\ Fresh

\* the action, over the environments that vary the parameters of the fetch
InitParams ==
    /\ skew = 0
    /\ env \in ParamConfigs
    /\ entry = "action"
    /\ scriptCall = "none"
    /\ Fresh

\* the action, over the environments that vary the lookback
InitLookback ==
    /\ skew = 0
    /\ env \in LookbackConfigs
    /\ entry = "action"
    /\ scriptCall = "none"
    /\ Fresh

\* the action on a runner whose clock is one day behind the clock that
\* stamped the runs: the run started 0.3 days before Now0 lies in its future
InitSkew ==
    /\ skew = DayMs
    /\ env \in SkewConfigs
    /\ entry = "action"
    /\ scriptCall = "none"
    /\ Fresh

\* a local test script (scripts/test.ts, src/testlocally.ts): it imports
\* index.ts and, once the import has returned, calls checkWorkflowStatus()
InitScript ==
    /\ skew = 0
    /\ env \in ScriptConfigs
    /\ entry = "script"
    /\ scriptCall = "start"
    /\ Fresh

\* the arguments of octokit.rest.actions.listWorkflowRuns  (index.ts:10-16)
FetchParams(inp) ==
    [ owner       |-> inp.owner,
      repo        |-> inp.repo,
      per_page    |-> inp.perPage,
      workflow_id |-> inp.workflowId,
      branch      |-> inp.branch ]

Start_SilentWithoutToken ==
    /\ pc = "start"
    /\ \E inp \in {getParsedInput(env)} :
           /\ input' = <<inp>>
           /\ IF inp.token = <<>>
              THEN /\ pc' = "done"
                   /\ UNCHANGED <<fetchCalls, requests, failures>>
              ELSE /\ fetchCalls' = fetchCalls + 1
                   /\ requests' = Append(requests, FetchParams(inp))
                   /\ pc' = "awaiting"
                   /\ UNCHANGED failures
    /\ UNCHANGED <<env, skew, entry, scriptCall, evaluations, response, clock, lookback,
                   recent, firstReads, outputs>>

\* index.ts:76-80 and 7-16: main() calls checkWorkflowStatus(), which reads
\* the inputs, builds the client (getOctokit throws on a missing token: the
\* catch block runs), issues the fetch and suspends
Start ==
    /\ pc = "start"
    /\ \E inp \in {getParsedInput(env)} :
           /\ input' = <<inp>>
           /\ IF inp.token = <<>>
              THEN /\ failures' = Append(failures, FailedMessage)
                   /\ pc' = "done"
                   /\ UNCHANGED <<fetchCalls, requests>>
              ELSE /\ fetchCalls' = fetchCalls + 1
                   /\ requests' = Append(requests, FetchParams(inp))
                   /\ pc' = "awaiting"
                   /\ UNCHANGED failures
    /\ UNCHANGED <<env, skew, entry, scriptCall, evaluations, response, clock, lookback,
                   recent, firstReads, outputs>>

\* index.ts:18-47 (and 48-51 when the evaluation throws): the fetch resolved;
\* a promise is settled only after the synchronous code of the process,
\* the call of a script included, has run
FetchResolve ==
    /\ pc = "awaiting"
    /\ scriptCall # "start"
    /\ \E ttl \in {Threshold(timeToLookBackMs(input[1].daysToLookBack))} :
       \E runs \in RunLists :
         \E clk \in ClockReadingsFrom(Now0 - skew, Len(runs)) :
           LET r == Evaluate(runs, clk, input[1], ttl)
           IN  /\ response' = <<runs>>
               /\ lookback' = IF r.recent = <<>> THEN <<>> ELSE <<ttl>>
               /\ clock' = clk
               /\ recent' = r.recent
               /\ firstReads' = firstReads + r.firstReads
               /\ IF r.threw
                  THEN /\ failures' = Append(failures, FailedMessage)
                       /\ UNCHANGED outputs
                  ELSE /\ outputs' = Append(outputs, <<"has_previous_failure", r.value>>)
                       /\ UNCHANGED failures
    /\ evaluations' = evaluations + 1
    /\ pc' = "done"
    /\ UNCHANGED <<env, skew, entry, scriptCall, input, fetchCalls, requests>>

FetchReject_RetryOnce ==
    /\ pc = "awaiting"
    /\ scriptCall # "start"
    /\ IF fetchCalls < 2
       THEN /\ fetchCalls' = fetchCalls + 1
            /\ requests' = Append(requests, FetchParams(input[1]))
            /\ UNCHANGED <<pc, failures>>
       ELSE /\ failures' = Append(failures, FailedMessage)
            /\ pc' = "done"
            /\ UNCHANGED <<fetchCalls, requests>>
    /\ UNCHANGED <<env, skew, entry, scriptCall, input, evaluations, response, clock,
                   lookback, recent, firstReads, outputs>>

FetchReject_Uncaught ==
    /\ pc = "awaiting"
    /\ scriptCall # "start"
    /\ pc' = "rejected"
    /\ UNCHANGED <<env, skew, entry, scriptCall, input, fetchCalls, requests, evaluations,
                   response, clock, lookback, recent, firstReads, outputs, failures>>

\* index.ts:48-51: the fetch rejected
FetchReject ==
    /\ pc = "awaiting"
    /\ scriptCall # "start"
    /\ failures' = Append(failures, FailedMessage)
    /\ pc' = "done"
    /\ UNCHANGED <<env, skew, entry, scriptCall, input, fetchCalls, requests, evaluations,
                   response, clock, lookback, recent, firstReads, outputs>>

Next == Start \/ FetchResolve \/ FetchReject

Spec == Init /\ [][Next]_vars

SpecParams == InitParams /\ [][Next]_vars

SpecLookback == InitLookback /\ [][Next]_vars

SpecSkew == InitSkew /\ [][Next]_vars

\* the action when the promise of listWorkflowRuns settles.  FetchReject and
\* FetchResolve are enabled in the same states and a step of either disables
\* both, so weak fairness of one of them says exactly that an invocation
\* does not stay suspended at its await for ever; it does not choose between
\* resolution and rejection
SpecFair ==
    /\ InitLookback
    /\ [][Next]_vars
    /\ WF_vars(FetchReject)

\* scripts/test.ts:12-23, testlocally.ts:18-29: testLocally() calls
\* checkWorkflowStatus() after the import has started main(): index.ts:7-16
\* a second time in the same process
ScriptStart ==
    /\ scriptCall = "start"
    /\ pc # "start"
    /\ \E inp \in {getParsedInput(env)} :
           IF inp.token = <<>>
           THEN /\ failures' = Append(failures, FailedMessage)
                /\ scriptCall' = "done"
                /\ UNCHANGED <<fetchCalls, requests>>
           ELSE /\ fetchCalls' = fetchCalls + 1
                /\ requests' = Append(requests, FetchParams(inp))
                /\ scriptCall' = "awaiting"
                /\ UNCHANGED failures
    /\ UNCHANGED <<env, skew, entry, pc, input, evaluations, response, clock, lookback,
                   recent, firstReads, outputs>>

\* index.ts:18-47 for the call of the script: its fetch resolved
ScriptResolve ==
    /\ scriptCall = "awaiting"
    /\ \E inp \in {getParsedInput(env)} :
       \E ttl \in {Threshold(timeToLookBackMs(inp.daysToLookBack))} :
       \E runs \in RunLists :
         \E clk \in ClockReadingsFrom(Now0 - skew, Len(runs)) :
           LET r == Evaluate(runs, clk, inp, ttl)
           IN  /\ firstReads' = firstReads + r.firstReads
               /\ IF r.threw
                  THEN /\ failures' = Append(failures, FailedMessage)
                       /\ UNCHANGED outputs
                  ELSE /\ outputs' = Append(outputs, <<"has_previous_failure", r.value>>)
                       /\ UNCHANGED failures
    /\ evaluations' = evaluations + 1
    /\ scriptCall' = "done"
    /\ UNCHANGED <<env, skew, entry, pc, input, fetchCalls, requests, response, clock,
                   lookback, recent>>

\* index.ts:48-51 for the call of the script: its fetch rejected
ScriptReject ==
    /\ scriptCall = "awaiting"
    /\ failures' = Append(failures, FailedMessage)
    /\ scriptCall' = "done"
    /\ UNCHANGED <<env, skew, entry, pc, input, fetchCalls, requests, evaluations,
                   response, clock, lookback, recent, firstReads, outputs>>

NextScript ==
    Start \/ FetchResolve \/ FetchReject \/ ScriptStart \/ ScriptResolve \/ ScriptReject

SpecScript == InitScript /\ [][NextScript]_vars

-----------------------------------------------------------------------------
(* What the properties speak about *)

Resolved == pc = "done" /\ response # <<>>
workflowRuns == response[1]
checkOutsideWindow == input[1].checkOutsideWindow
PublishedOnce(v) == outputs = << <<"has_previous_failure", v>> >>

\* the age of run i when the filter examined it
AgeAt(i) == clock[i] - getTime(workflowRuns[i].run_started_at)

\* age <= the lookback in milliseconds, as the invocation computed it
LeqLookback(age) ==
    /\ lookback # <<>>
    /\ \/ lookback[1].kind = "inf" /\ ~lookback[1].neg
       \/ lookback[1].kind = "num" /\ age <= lookback[1].floor

\* W: the positions of the runs with a start time and an age within the lookback
Window ==
    IF ~Resolved THEN {}
    ELSE { i \in 1..Len(workflowRuns) :
             /\ workflowRuns[i].run_started_at # NoTime
             /\ LeqLookback(AgeAt(i)) }

\* run i of the fetched list is among the recentWorkflowRuns
InRecent(i) == \E j \in 1..Len(recent[1]) : recent[1][j].id = i

\* the decision tree of the evaluator, section 4.2
TreeVerdict ==
    IF Len(workflowRuns) = 0 THEN FALSE
    ELSE IF Window = {}
         THEN (IF checkOutsideWindow THEN workflowRuns[1].conclusion # "success" ELSE FALSE)
         ELSE ~ \E i \in Window : workflowRuns[i].conclusion = "success"

\* C1: once the fetch has resolved, exactly one has_previous_failure is
\* published and its value is the decision tree applied to the fetched list:
\* empty list -> false; W empty -> (checkOutsideWindow and records[0] is not a
\* success); otherwise -> no record of W is a success.
C1_DecisionTree == Resolved => PublishedOnce(BoolStr(TreeVerdict))

C1_Witness ==
    /\ Resolved /\ Len(workflowRuns) = 2
    /\ Window = {2}
    /\ workflowRuns[1].run_started_at # NoTime
    /\ workflowRuns[1].conclusion = "success"
    /\ workflowRuns[2].conclusion = "failure"
    /\ PublishedOnce("true")

\* C2: an empty fetched list publishes 'false' whatever the policy, without
\* a process failure and without ever reading records[0].
C2_EmptyList ==
    (Resolved /\ workflowRuns = <<>>) =>
        PublishedOnce("false") /\ failures = <<>> /\ firstReads = 0

C2_Witness ==
    /\ Resolved /\ workflowRuns = <<>>
    /\ input[1].daysToLookBack.kind = "nan"
    /\ checkOutsideWindow
    /\ PublishedOnce("false")

\* C3: success dominance: if some record inside the window is a success the
\* output is 'false', whatever else the window holds and whatever the flag.
C3_SuccessDominance ==
    (Resolved /\ \E i \in Window : workflowRuns[i].conclusion = "success")
        => PublishedOnce("false")

C3_Witness ==
    /\ Resolved /\ Window = {1, 2}
    /\ workflowRuns[1].conclusion = "failure"
    /\ workflowRuns[2].conclusion = "success"
    /\ ~checkOutsideWindow
    /\ PublishedOnce("false")

\* C4: a non-empty window without a success publishes 'true', for either
\* value of checkOutsideWindow.
C4_AllFailureInWindow ==
    (Resolved /\ Window # {}
       /\ \A i \in Window : workflowRuns[i].conclusion # "success")
        => PublishedOnce("true")

C4_Witness ==
    /\ Resolved /\ Len(workflowRuns) = 2 /\ Window = {1}
    /\ workflowRuns[1].conclusion = "cancelled"
    /\ workflowRuns[2].conclusion = "success"
    /\ ~checkOutsideWindow
    /\ PublishedOnce("true")

\* C5: with a non-empty list, an empty window and checkOutsideWindow true, the
\* output is 'false' if records[0] is a success and 'true' for any other
\* outcome of records[0], whatever the age of records[0].
C5_FallbackEnabled ==
    (Resolved /\ workflowRuns # <<>> /\ Window = {} /\ checkOutsideWindow)
        => PublishedOnce(IF workflowRuns[1].conclusion = "success"
                         THEN "false" ELSE "true")

C5_Witness ==
    /\ Resolved /\ Len(workflowRuns) = 2 /\ Window = {}
    /\ checkOutsideWindow
    /\ workflowRuns[1].run_started_at = NoTime
    /\ workflowRuns[1].conclusion = Null
    /\ workflowRuns[2].conclusion = "success"
    /\ firstReads = 1
    /\ PublishedOnce("true")

\* C6: with an empty window and checkOutsideWindow false the output is
\* 'false', even if every record is a non-success.
C6_FallbackDisabled ==
    (Resolved /\ Window = {} /\ ~checkOutsideWindow) => PublishedOnce("false")

C6_Witness ==
    /\ Resolved /\ Len(workflowRuns) = 2 /\ Window = {}
    /\ ~checkOutsideWindow
    /\ \A i \in 1..2 : workflowRuns[i].conclusion \in {"failure", Null}
    /\ workflowRuns[1].run_started_at # NoTime
    /\ PublishedOnce("false")

\* the configured lookback, in days, as the decimal written in the input
ConfiguredDays == StrDecimalLiteral(daysToLookBackInput(env.days_to_look_back))

\* lookbackDays * 86,400,000 for a decimal of at most five places
ConfiguredMs == ConfiguredDays.m * (DayMs \div Pow10(ConfiguredDays.s))

\* C7: inclusive boundary: a record whose age is exactly lookbackDays *
\* 86,400,000 ms is in the in-window set, and a record one millisecond older
\* is not.
C7_InclusiveBoundary ==
    (Resolved /\ recent # <<>> /\ ConfiguredDays.kind = "num") =>
        \A i \in 1..Len(workflowRuns) :
            workflowRuns[i].run_started_at # NoTime =>
                /\ AgeAt(i) = ConfiguredMs => InRecent(i)
                /\ AgeAt(i) = ConfiguredMs + 1 => ~InRecent(i)

\* C8: a record without a start time is never in the in-window set, so a
\* success without a start time does not clear the 'true' of a window of
\* timestamped non-success records.
C8_MissingTimestamp ==
    (Resolved /\ recent # <<>>) =>
        /\ \A i \in 1..Len(workflowRuns) :
               workflowRuns[i].run_started_at = NoTime => ~InRecent(i)
        /\ ( /\ Window # {}
             /\ \A i \in Window : workflowRuns[i].conclusion # "success" )
               => PublishedOnce("true")

C8_Witness ==
    /\ Resolved /\ Len(workflowRuns) = 2 /\ Window = {2}
    /\ workflowRuns[1].run_started_at = NoTime
    /\ workflowRuns[1].conclusion = "success"
    /\ workflowRuns[2].conclusion = "failure"
    /\ ~InRecent(1) /\ InRecent(2)
    /\ PublishedOnce("true")

NonSuccess == { "failure", "cancelled", "timed_out", "skipped", Null }

\* C9: replacing the outcome of any non-success record by any other
\* non-success outcome (failure, cancelled, timed out, null) leaves the
\* output as published, inside the window and in the fallback alike.
C9_NonSuccessInterchangeable ==
    (Resolved /\ workflowRuns # <<>>) =>
        \A i \in 1..Len(workflowRuns) : \A o \in NonSuccess :
            workflowRuns[i].conclusion # "success" =>
                LET runs == [workflowRuns EXCEPT ![i].conclusion = o]
                    r    == Evaluate(runs, clock, input[1], lookback[1])
                IN  ~r.threw /\ PublishedOnce(r.value)

C9_Witness ==
    /\ Resolved /\ Len(workflowRuns) = 2 /\ Window = {1}
    /\ workflowRuns[1].conclusion = Null
    /\ workflowRuns[2].conclusion = "cancelled"
    /\ PublishedOnce("true")

\* C10: check_outside_window is lower-cased and trimmed: 'true', 'TRUE',
\* 'True', the empty string and a blank string (and a padded ' True ', with
\* blanks, a tab, a form feed, a vertical tab or an em space around it) give
\* checkOutsideWindow = true; 'false', 'FALSE', 'False' give false.
C10_FlagParsing ==
    input # <<>> =>
        /\ env.check_outside_window
             \in {Str_true, Str_TRUE, Str_True, Str_empty, Str_blank,
                  Str_padTrue, Str_feedTrue}
               => checkOutsideWindow
        /\ env.check_outside_window \in {Str_false, Str_FALSE, Str_False}
               => ~checkOutsideWindow

C10_Witness ==
    /\ Resolved /\ env.check_outside_window = Str_TRUE
    /\ checkOutsideWindow
    /\ Window = {} /\ Len(workflowRuns) = 1
    /\ workflowRuns[1].conclusion = "failure"
    /\ PublishedOnce("true")

\* C11: a days_to_look_back that is no number raises no error and excludes
\* every record from the in-window set; the output is the outside-window
\* path alone: records[0] is not a success when checkOutsideWindow is true,
\* 'false' for every list when it is false.
C11_InvalidLookback ==
    (Resolved /\ ConfiguredDays.kind = "nan") =>
        /\ failures = <<>>
        /\ recent # <<>> => recent[1] = <<>>
        /\ PublishedOnce(
               IF workflowRuns # <<>> /\ checkOutsideWindow
               THEN BoolStr(workflowRuns[1].conclusion # "success")
               ELSE "false")

C11_Witness ==
    /\ Resolved /\ env.days_to_look_back = Str_abc
    /\ Len(workflowRuns) = 2
    /\ workflowRuns[1].run_started_at = <<9, 60480000>>
    /\ workflowRuns[1].conclusion = "failure"
    /\ workflowRuns[2].conclusion = "success"
    /\ ~checkOutsideWindow
    /\ recent = << <<>> >>
    /\ PublishedOnce("false")

\* the fetch of the invocation was issued and rejected
Rejected == pc = "done" /\ fetchCalls > 0 /\ response = <<>>

\* the invocation ended before a fetch was issued: no token to build the
\* client with
ConfigurationThrew == pc = "done" /\ fetchCalls = 0 /\ input[1].token = <<>>

\* C12: when the fetch rejects, setFailed is called exactly once, with
\* 'Failed to check the workflow status', setOutput is never called and the
\* fetch is not issued a second time.
C12_FetchRejected ==
    Rejected =>
        /\ failures = <<FailedMessage>>
        /\ outputs = <<>>
        /\ fetchCalls = 1 /\ Len(requests) = 1

C12_Witness ==
    /\ Rejected
    /\ env.check_outside_window = Str_false
    /\ env.days_to_look_back = Str_point4
    /\ failures = <<FailedMessage>> /\ outputs = <<>> /\ evaluations = 0

\* C13: a completed run of the action has either published one
\* has_previous_failure of 'true' or 'false' and signalled no failure, or
\* signalled a failure and published nothing; setOutput together with
\* setFailed, or neither, is never reached.
C13_BinaryOutcome ==
    /\ ~(outputs # <<>> /\ failures # <<>>)
    /\ pc = "done" =>
          \/ (PublishedOnce("true") \/ PublishedOnce("false")) /\ failures = <<>>
          \/ Len(failures) = 1 /\ outputs = <<>>

C13_Witness ==
    /\ ConfigurationThrew
    /\ failures = <<FailedMessage>> /\ outputs = <<>>

\* C14: setFailed is called only when reading the configuration, the fetch
\* or the evaluation threw; when the fetch resolves with a list of runs,
\* setFailed is never called, whatever the verdict.
C14_VerdictIsNormalCompletion ==
    /\ Resolved => failures = <<>>
    /\ failures # <<>> => (ConfigurationThrew \/ Rejected)

C14_Witness ==
    /\ Resolved /\ evaluations = 1
    /\ Window = {1, 2}
    /\ \A i \in 1..2 : workflowRuns[i].conclusion = "failure"
    /\ PublishedOnce("true") /\ failures = <<>>

\* every call of checkWorkflowStatus() that the process makes has returned
ProcessDone == pc = "done" /\ scriptCall \in {"none", "done"}

\* two calls of checkWorkflowStatus() are suspended at their fetch together
Overlapping == pc = "awaiting" /\ scriptCall = "awaiting"

\* C15: a process issues one fetch and evaluates one list, and no two
\* evaluations overlap, whichever module it runs: the action, or a local
\* test script that imports index.ts and then calls checkWorkflowStatus().
C15_OneFetchOneEvaluation ==
    /\ fetchCalls <= 1 /\ Len(requests) <= 1
    /\ evaluations <= 1
    /\ ~Overlapping
    /\ (ProcessDone /\ outputs # <<>>) => fetchCalls = 1 /\ evaluations = 1

\* run i is a failure that has lasted seven days or more
PersistedSevenDays(i) ==
    /\ workflowRuns[i].run_started_at # NoTime
    /\ workflowRuns[i].conclusion # "success"
    /\ AgeAt(i) >= 7 * DayMs

\* C16: with the default lookback, has_previous_failure is 'true' only when
\* the workflow has been failing for seven days or more: a failure less than
\* seven days old does not by itself produce 'true'.
C16_SevenDaysOfFailure ==
    (Resolved /\ env.days_to_look_back = <<>> /\ PublishedOnce("true")) =>
        \E i \in 1..Len(workflowRuns) : PersistedSevenDays(i)

\* C17: the owner and repo inputs select the repository of the fetch; the
\* owner and name of the invoking repository are used only when the inputs
\* are omitted.
C17_OwnerRepoInputs ==
    \A k \in 1..Len(requests) :
        /\ requests[k].owner =
               IF env.owner = <<>> THEN env.context.repo.owner ELSE env.owner
        /\ requests[k].repo =
               IF env.repo = <<>> THEN env.context.repo.repo ELSE env.repo

\* s is a non-empty string of decimal digits
AllDigits(s) == s # <<>> /\ DigitRun(s, 1) = Len(s)

\* C19: the fetch is issued with workflow_id (default 'release.yml'), branch
\* (default 'main'), per_page read as an integer (default 50) and the owner
\* and repo of the invoking repository; an input that is not empty is used
\* in place of its default.
C19_FetchParameters ==
    fetchCalls > 0 =>
        /\ Len(requests) = 1
        /\ requests[1].owner = env.context.repo.owner
        /\ requests[1].repo = env.context.repo.repo
        /\ requests[1].workflow_id =
               IF env.workflow_id = <<>> THEN ReleaseYml ELSE env.workflow_id
        /\ requests[1].branch =
               IF env.branch = <<>> THEN MainStr ELSE env.branch
        /\ env.per_page = <<>> => requests[1].per_page = IntNum(FALSE, 50)
        /\ AllDigits(env.per_page) =>
               requests[1].per_page =
                   IntNum(FALSE, DigitsValue(env.per_page, 1, Len(env.per_page)))
        /\ env.per_page # <<>> => requests[1].per_page = parseInt(env.per_page)
        /\ env.per_page = Str_feed12 =>
               requests[1].per_page = IntNum(FALSE, 12)

C19_Witness ==
    /\ Resolved /\ fetchCalls = 1
    /\ env.workflow_id = Str_ciYml /\ env.branch = Str_dev
    /\ env.per_page = Str_100
    /\ requests = << [ owner |-> InvokingRepo.repo.owner,
                       repo |-> InvokingRepo.repo.repo,
                       per_page |-> IntNum(FALSE, 100),
                       workflow_id |-> Str_ciYml, branch |-> Str_dev ] >>

\* C18: the window is the configured days_to_look_back, fractions of a day
\* included, and not a fixed seven days: a record older than the lookback is
\* excluded even if younger than seven days, a record younger than the
\* lookback is included even if older than seven days; an empty
\* days_to_look_back means seven days.
C18_ConfiguredWindow ==
    (Resolved /\ recent # <<>> /\ ConfiguredDays.kind = "num") =>
        /\ env.days_to_look_back = <<>> => ConfiguredMs = 7 * DayMs
        /\ env.days_to_look_back = Str_feedPoint3 =>
               ConfiguredMs = 3 * (DayMs \div 10)
        /\ \A i \in 1..Len(workflowRuns) :
               workflowRuns[i].run_started_at # NoTime =>
                   /\ AgeAt(i) > ConfiguredMs => ~InRecent(i)
                   /\ AgeAt(i) < ConfiguredMs => InRecent(i)

C18_Witness ==
    /\ Resolved /\ env.days_to_look_back = Str_7point5
    /\ Len(workflowRuns) = 2
    /\ workflowRuns[1].conclusion = "success"
    /\ workflowRuns[2].conclusion = "failure"
    /\ \A i \in 1..2 : workflowRuns[i].run_started_at # NoTime
    /\ recent # <<>>
    /\ AgeAt(1) = 7 * DayMs + 1 /\ InRecent(1)
    /\ AgeAt(2) < 7 * DayMs /\ InRecent(2)
    /\ PublishedOnce("false")

\* C20: when the in-window set is not empty, giving any other outcome to a
\* record outside the window (a failure made a success, a success made a
\* failure) leaves the output as published.
C20_OutsideWindowIgnored ==
    (Resolved /\ Window # {}) =>
        \A i \in (1..Len(workflowRuns)) \ Window : \A o \in Conclusions :
            LET runs == [workflowRuns EXCEPT ![i].conclusion = o]
                r    == Evaluate(runs, clock, input[1], lookback[1])
            IN  ~r.threw /\ PublishedOnce(r.value)

C20_Witness ==
    /\ Resolved /\ Len(workflowRuns) = 2 /\ Window = {1}
    /\ env.days_to_look_back = Str_point4
    /\ workflowRuns[1].conclusion = "failure"
    /\ workflowRuns[2].run_started_at = <<3, 0>>
    /\ workflowRuns[2].conclusion = "success"
    /\ PublishedOnce("true")

\* C21: in the outside-window fallback the verdict depends on records[0]
\* alone: with an empty in-window set and checkOutsideWindow true, giving any
\* outcome and any start time to a record at index >= 1, as long as the
\* in-window set stays empty, leaves the output as published; a list
\* [failure, success] entirely outside the window gives 'true'.
C21_FallbackReadsFirstOnly ==
    (Resolved /\ workflowRuns # <<>> /\ Window = {} /\ checkOutsideWindow) =>
        \A i \in 2..Len(workflowRuns) : \A f \in RunFields :
            LET runs == [workflowRuns EXCEPT ![i] = MakeRun(i, f)]
                r    == Evaluate(runs, clock, input[1], lookback[1])
            IN  r.recent = << <<>> >> => (~r.threw /\ PublishedOnce(r.value))

C21_Witness ==
    /\ Resolved /\ Len(workflowRuns) = 2 /\ Window = {}
    /\ checkOutsideWindow
    /\ \A i \in 1..2 : workflowRuns[i].run_started_at = <<3, 0>>
    /\ workflowRuns[1].conclusion = "failure"
    /\ workflowRuns[2].conclusion = "success"
    /\ env.days_to_look_back = Str_point4
    /\ PublishedOnce("true")

\* C22: a record at index 0 without a start time is never in the window and
\* is still the record the fallback inspects: with an empty in-window set and
\* checkOutsideWindow true the output is 'false' if it is a success and
\* 'true' otherwise, even when later records carry start times and other
\* outcomes.
C22_TimestampAsymmetry ==
    (Resolved /\ workflowRuns # <<>>
       /\ workflowRuns[1].run_started_at = NoTime) =>
        /\ 1 \notin Window /\ ~InRecent(1)
        /\ (Window = {} /\ checkOutsideWindow) =>
               /\ firstReads = 1
               /\ workflowRuns[1].conclusion = "success" => PublishedOnce("false")
               /\ workflowRuns[1].conclusion # "success" => PublishedOnce("true")

C22_Witness ==
    /\ Resolved /\ Len(workflowRuns) = 2 /\ Window = {}
    /\ checkOutsideWindow
    /\ workflowRuns[1].run_started_at = NoTime
    /\ workflowRuns[1].conclusion = "success"
    /\ workflowRuns[2].run_started_at = <<3, 0>>
    /\ workflowRuns[2].conclusion = "failure"
    /\ ~InRecent(1) /\ firstReads = 1
    /\ PublishedOnce("false")

\* C23: the evaluation filters and never re-sorts: the in-window set is a
\* subsequence of the fetched list in the same relative order, and the
\* record the fallback inspects is the one at position 0 of the list as
\* fetched, even when a later record has a more recent start time.
C23_FilterNeverSorts ==
    (Resolved /\ workflowRuns # <<>>) =>
        /\ \A j \in 1..Len(recent[1]) :
               /\ recent[1][j].id \in 1..Len(workflowRuns)
               /\ recent[1][j] = workflowRuns[recent[1][j].id]
        /\ \A j \in 1..Len(recent[1]) : \A k \in 1..Len(recent[1]) :
               j < k => recent[1][j].id < recent[1][k].id
        /\ (Window = {} /\ checkOutsideWindow) =>
               PublishedOnce(BoolStr(workflowRuns[1].conclusion # "success"))

C23_Witness ==
    /\ Resolved /\ Len(workflowRuns) = 2
    /\ workflowRuns[1].run_started_at = <<3, 0>>
    /\ workflowRuns[2].run_started_at = <<9, 60480000>>
    /\ workflowRuns[1].conclusion = "failure"
    /\ workflowRuns[2].conclusion = "cancelled"
    /\ recent = << workflowRuns >>
    /\ PublishedOnce("true")

\* C25: all records of one evaluation are judged against one reference
\* time: when the clock advances while the list is filtered, two records
\* with the same start time are still both inside or both outside the
\* window.
C25_SingleReferenceTime ==
    (Resolved /\ workflowRuns # <<>>) =>
        \A i \in 1..Len(workflowRuns) : \A j \in 1..Len(workflowRuns) :
            ( /\ workflowRuns[i].run_started_at # NoTime
              /\ workflowRuns[i].run_started_at = workflowRuns[j].run_started_at )
                => (InRecent(i) <=> InRecent(j))

\* the clock readings of another evaluation that starts at the same time
SameStartReadings ==
    { c \in ClockReadingsFrom(clock[1], Len(workflowRuns)) : c[1] = clock[1] }

\* C24: the evaluation leaves the fetched records as they were (the records
\* it retained are the fetched ones, with their start times and outcomes),
\* and the output is a function of records, policy and current time: a
\* second evaluation of the same records under the same policy at the same
\* time publishes the same value.
C24_FunctionOfRecordsPolicyTime ==
    (Resolved /\ workflowRuns # <<>>) =>
        /\ \A j \in 1..Len(recent[1]) :
               recent[1][j] = workflowRuns[recent[1][j].id]
        /\ \A c \in SameStartReadings :
               LET r == Evaluate(workflowRuns, c, input[1], lookback[1])
               IN  ~r.threw /\ PublishedOnce(r.value)

\* C26: no error leaves checkWorkflowStatus: whether the fetch resolves or
\* rejects, the call returns normally (its promise is never rejected), and
\* once the fetch has settled the invocation reaches a final state in which
\* setOutput or setFailed has been called.
C26_AlwaysSettles ==
    /\ [](pc \in {"start", "awaiting", "done"})
    /\ (pc # "start") ~> [](pc = "done" /\ Len(outputs) + Len(failures) = 1)

C26_Witness ==
    /\ Rejected
    /\ env.days_to_look_back = Str_8
    /\ failures = <<FailedMessage>> /\ outputs = <<>>

\* run i started after the time at which the filter examined it
FutureDated(i) == workflowRuns[i].run_started_at # NoTime /\ AgeAt(i) < 0

\* C27: a record whose start time lies in the future of the evaluation
\* (negative age) is inside the window for every lookback that is not
\* negative: a future-dated success gives 'false', and a lone future-dated
\* failure gives 'true'.
C27_FutureDatedInWindow ==
    (Resolved /\ workflowRuns # <<>>
       /\ ConfiguredDays.kind = "num" /\ ~ConfiguredDays.neg) =>
        /\ \A i \in 1..Len(workflowRuns) : FutureDated(i) => InRecent(i)
        /\ (\E i \in 1..Len(workflowRuns) :
                FutureDated(i) /\ workflowRuns[i].conclusion = "success")
               => PublishedOnce("false")
        /\ ( /\ Len(workflowRuns) = 1 /\ FutureDated(1)
             /\ workflowRuns[1].conclusion # "success" )
               => PublishedOnce("true")

C27_Witness ==
    /\ Resolved /\ Len(workflowRuns) = 2
    /\ env.days_to_look_back = Str_0
    /\ workflowRuns[1].run_started_at = <<3, 0>>
    /\ workflowRuns[1].conclusion = "failure"
    /\ workflowRuns[2].conclusion = "success"
    /\ FutureDated(2) /\ ~InRecent(1) /\ InRecent(2)
    /\ PublishedOnce("false")

\* C28: a check_outside_window that is neither empty nor 'true' nor 'false'
\* after trimming and lower-casing ('yes', '1', 'Etrue' with an accent on the
\* E) is not rejected: no error is raised and it counts as false, so the
\* outside-window fallback is off.
C28_OtherFlagValuesAreFalse ==
    (/\ input # <<>>
     /\ env.check_outside_window \in {Str_yes, Str_one, Str_accentTrue}) =>
        /\ ~checkOutsideWindow
        /\ pc # "start" /\ fetchCalls = 1
        /\ Resolved => failures = <<>>
        /\ (Resolved /\ Window = {}) => PublishedOnce("false")

C28_Witness ==
    /\ Resolved /\ env.check_outside_window = Str_yes
    /\ Len(workflowRuns) = 1 /\ Window = {}
    /\ workflowRuns[1].conclusion = "failure"
    /\ ~checkOutsideWindow /\ failures = <<>>
    /\ PublishedOnce("false")

====
